---------------------------- MODULE Spec2Model ----------------------------
(***************************************************************************)
(* The aggregation service of the dashboard backend                        *)
(* (server/services/rawgServices.js): the process-wide Twitch token cache, *)
(* the per-game live-viewer resolution, and the fan-out / fan-in of        *)
(* fetchTrendingGames.                                                     *)
(*                                                                         *)
(* Node.js runs one turn of the event loop at a time: a turn starts when a *)
(* call is made or a provider response arrives, and runs the code (and all *)
(* promise continuations it schedules) up to the next network await.  Each *)
(* action below is one such turn.                                          *)
(***************************************************************************)
EXTENDS Integers, Sequences, FiniteSets, TLC

\* Number of fetchTrendingGames invocations of one process lifetime.
MaxRequests == 2

\* The longest streams response drawn in SpecSum.
MaxStreams == 3

\* How often React runs App's mount effect: once, or twice under
\* <React.StrictMode> in a development build.
MaxLoads == 2

\* `let twitchToken = null`: the empty cache.  Tokens are 1, 2, 3, ...
Null == 0

\* A catalog item whose name field is missing (undefined in JavaScript).
Absent == "<absent>"

---------------------------------------------------------------------------
(* The providers' data: what the catalog and the streaming provider answer *)
(* when they answer successfully.                                          *)

GameA == [id |-> 11, name |-> "A", background_image |-> "a.png"]
GameB == [id |-> 12, name |-> "B", background_image |-> "b.png"]
GameC == [id |-> 13, name |-> "C", background_image |-> "c.png"]
GameE == [id |-> 14, name |-> "", background_image |-> "e.png"]
GameU == [id |-> 15, name |-> Absent, background_image |-> "u.png"]

\* response.data.results of GET /games for fetchTrendingGames
TrendingCatalogs ==
  { << >>, <<GameA>>, <<GameC, GameA>>, <<GameA, GameB>>,
    <<GameE, GameC>>, <<GameU>> }

\* gameResponse.data.data of GET /helix/games?name=...: the matches, in the
\* provider's relevance order.
TwitchGames(gameName) ==
  CASE gameName = "A" -> << [id |-> 101], [id |-> 102] >>
    [] gameName = "C" -> << [id |-> 103] >>
    [] OTHER -> << >>

\* streamsResponse.data.data of GET /helix/streams?game_id=...
TwitchStreams(gameId) ==
  CASE gameId = 101 -> << [viewer_count |-> 120], [viewer_count |-> 80],
                          [viewer_count |-> 300] >>
    [] gameId = 102 -> << [viewer_count |-> 7] >>
    [] gameId = 103 -> << [viewer_count |-> 40], [viewer_count |-> 2] >>
    [] OTHER -> << >>

\* The two ways an axios call fails: a response with an error status
\* (error.response is set) or no response at all (error.response undefined).
Failures == {"http", "network"}

---------------------------------------------------------------------------
VARIABLES
  twitchToken,  \* the process-wide token cache
  req,          \* req[r]: the r-th fetchTrendingGames invocation
  lv,           \* lv[r][i]: the fetchLiveViewers call for item i of request r
  issued,       \* provider: number of tokens issued so far
  revoked,      \* provider: the tokens it has invalidated
  genre,        \* the fetchGenreTrends invocation (games: the response
                \* it received, kept as history)
  platform,     \* the fetchPlatformPerformance invocation (platforms: the
                \* response it received, kept as history)
  app,          \* client: the state of the App component
  load          \* client: load[l] is the l-th run of fetchAllData

vars == <<twitchToken, req, lv, issued, revoked, genre, platform, app, load>>

\* The server side, which no step of the client touches.
serverVars == <<twitchToken, req, lv, issued, revoked, genre, platform>>

Requests == 1..MaxRequests

---------------------------------------------------------------------------
(* getTwitchAccessToken *)

\* Faulty variant: the cache is never consulted.
CacheHit_Never(cache) == FALSE

\* `if (twitchToken)`
CacheHit(cache) == cache # Null

\* `twitchToken = response.data.access_token`
StoreToken(cache, access_token) == access_token

\* Faulty variant: the catch block logs and falls through (returns undefined).
TokenCatch_Swallows(failure) == [out |-> "return", ret |-> Null, error |-> ""]

\* The catch block of getTwitchAccessToken: it reads error.response.data and
\* throws 'Could not get Twitch token'; with no response, reading
\* error.response.data throws a TypeError instead.  Either way it throws.
TokenCatch(failure) ==
  [out |-> "raise", ret |-> Null,
   error |-> IF failure = "http" THEN "Error: Could not get Twitch token"
                                 ELSE "TypeError"]

---------------------------------------------------------------------------
(* fetchLiveViewers *)

\* Faulty variant: `if (gameName === "")`.
NoName_OnlyEmptyString(gameName) == gameName = ""

\* `if (!gameName)`
NoName(gameName) == gameName = "" \/ gameName = Absent

\* `gameResponse.data.data[0].id`
FirstMatch(data) == data[1].id

\* Faulty variant: `totalViewers = stream.viewer_count` (assignment in the
\* loop, so only the last stream counts).
SumViewers_LastOnly(data) ==
  IF data = << >> THEN 0 ELSE data[Len(data)].viewer_count

\* `streamsResponse.data.data.forEach(stream => totalViewers += stream.viewer_count)`
RECURSIVE SumViewers(_)
SumViewers(data) ==
  IF data = << >> THEN 0
  ELSE data[1].viewer_count + SumViewers(Tail(data))

\* Faulty variant: `return -1` as an error marker.
LiveViewersCatch_ReturnsMinusOne(error) == [out |-> "return", ret |-> -1]

\* Faulty variant: the catch block logs and rethrows.
LiveViewersCatch_Rethrows(error) == [out |-> "raise", ret |-> 0]

\* The catch block of fetchLiveViewers: log and `return 0`.
LiveViewersCatch(error) == [out |-> "return", ret |-> 0]

\* A fetchLiveViewers call that has not reached a return yet.  auth is the
\* token in the Authorization header of the call's request in flight.
\* sent, failed, after and streams are history: the requests the call has
\* sent, the step that failed, what had happened before the call started,
\* and the streams response it received.
Pending(gameName, after) ==
  [pc |-> "start", gameName |-> gameName, token |-> Null, gameId |-> 0,
   out |-> "pending", ret |-> 0, sent |-> {}, failed |-> "none",
   after |-> after, streams |-> << >>, auth |-> Null]

\* The call ends: `return value`, or an exception leaves it.  Its locals
\* (token, gameId) die with it and it has no request in flight.
Finish(call, outcome, failedStep) ==
  [call EXCEPT !.pc = "done", !.out = outcome.out, !.ret = outcome.ret,
               !.failed = failedStep, !.token = Null, !.gameId = 0,
               !.auth = Null]

\* Faulty variant: without the length test the call goes on to
\* GET /helix/streams with no game id.
EmptySearch_QueriesStreams(call) ==
  [call EXCEPT !.pc = "awaitStreams", !.sent = call.sent \cup {"streams"}]

\* `if (gameResponse.data.data.length === 0) { ...; return 0; }`
EmptySearch(call) == Finish(call, [out |-> "return", ret |-> 0], "none")

\* Step 2 of fetchLiveViewers: with `token` in hand, send GET /helix/games
\* with 'Authorization': `Bearer ${token}`.
SendSearch(call, token) ==
  [call EXCEPT !.pc = "awaitSearch", !.token = token, !.auth = token,
               !.sent = call.sent \cup {"search"}]

\* The synchronous start of fetchLiveViewers(gameName), run with the cache
\* holding `cache`: the name test, then getTwitchAccessToken up to its first
\* await.  On a cache hit the only await is on an already resolved promise,
\* so the search request is sent within the same turn.
Launch(gameName, cache, after) ==
  LET call == Pending(gameName, after) IN
  IF NoName(gameName) THEN Finish(call, [out |-> "return", ret |-> 0], "none")
  ELSE IF CacheHit(cache) THEN SendSearch(call, cache)
  ELSE [call EXCEPT !.pc = "awaitToken", !.sent = {"token"}]

---------------------------------------------------------------------------
(* fetchTrendingGames *)

\* The record built by the map callback.
MergeRecord(game, liveViewers) ==
  [id |-> game.id, name |-> game.name, image |-> game.background_image,
   liveViewers |-> liveViewers]

\* Faulty variant: values paired with the wrong items.
PromiseAll_Misindexed(games, calls) ==
  IF \E i \in 1..Len(calls) : calls[i].out = "raise"
    THEN [state |-> "rejected", value |-> << >>]
  ELSE IF \A i \in 1..Len(calls) : calls[i].out = "return"
    THEN [state |-> "fulfilled",
          value |-> [i \in 1..Len(calls) |->
                       MergeRecord(games[i], calls[Len(calls) + 1 - i].ret)]]
  ELSE [state |-> "pending", value |-> << >>]

\* Faulty variant: Promise.race-like, settled by the first callback that
\* returns, with 0 for the callbacks still running.
PromiseAll_FirstSettled(games, calls) ==
  IF \E i \in 1..Len(calls) : calls[i].out = "raise"
    THEN [state |-> "rejected", value |-> << >>]
  ELSE IF calls = << >> \/ \E i \in 1..Len(calls) : calls[i].out = "return"
    THEN [state |-> "fulfilled",
          value |-> [i \in 1..Len(calls) |-> MergeRecord(games[i], calls[i].ret)]]
  ELSE [state |-> "pending", value |-> << >>]

\* Promise.all over the map callbacks: rejected as soon as one callback has
\* thrown, fulfilled with the records in argument order once all returned.
PromiseAll(games, calls) ==
  IF \E i \in 1..Len(calls) : calls[i].out = "raise"
    THEN [state |-> "rejected", value |-> << >>]
  ELSE IF \A i \in 1..Len(calls) : calls[i].out = "return"
    THEN [state |-> "fulfilled",
          value |-> [i \in 1..Len(calls) |-> MergeRecord(games[i], calls[i].ret)]]
  ELSE [state |-> "pending", value |-> << >>]

\* History: the items of a request in the order their calls completed.
RECURSIVE Completed(_, _)
Completed(order, calls) ==
  LET new == {i \in 1..Len(calls) :
                /\ calls[i].pc = "done"
                /\ \A k \in 1..Len(order) : order[k] # i} IN
  IF new = {} THEN order
  ELSE Completed(Append(order, CHOOSE i \in new : \A j \in new : i <= j), calls)

\* req[r] after a turn that left the request's calls as `calls`.
Settle(r, games, calls) ==
  LET all == PromiseAll(games, calls)
      awaiting == [req[r] EXCEPT !.pc = "awaitAll", !.catalog = "ok",
                                 !.games = games,
                                 !.order = Completed(req[r].order, calls)] IN
  IF req[r].pc \notin {"awaitCatalog", "awaitAll"} THEN req[r]
  ELSE IF all.state = "rejected" THEN [awaiting EXCEPT !.pc = "raised"]
  ELSE IF all.state = "fulfilled"
    THEN [awaiting EXCEPT !.pc = "returned", !.result = all.value]
  ELSE awaiting

---------------------------------------------------------------------------
(* fetchGenreTrends and fetchPlatformPerformance.  A genre label is a      *)
(* sequence of characters, so that toLowerCase and replace act on it as    *)
(* they do on a JavaScript string.                                         *)

Action == <<"A", "c", "t", "i", "o", "n">>
RPG == <<"R", "P", "G">>
BoardGames == <<"B", "o", "a", "r", "d", " ", "G", "a", "m", "e", "s">>
OpenWorldRPG == <<"O", "p", "e", "n", " ", "W", "o", "r", "l", "d", " ", "R", "P", "G">>

\* response.data.results of GET /games for fetchGenreTrends
GenreCatalogs ==
  { << >>,
    << [genres |-> << [name |-> Action], [name |-> RPG] >>],
       [genres |-> << [name |-> Action] >>] >>,
    << [genres |-> << >>],
       [genres |-> << [name |-> OpenWorldRPG], [name |-> BoardGames] >>],
       [genres |-> << [name |-> BoardGames], [name |-> RPG] >>] >> }

\* response.data.results of GET /platforms
PlatformCatalogs ==
  { << >>,
    << [slug |-> "pc", name |-> "PC", games_count |-> 500],
       [slug |-> "playstation5", name |-> "PlayStation 5", games_count |-> 300] >>,
    << [slug |-> "ios", name |-> "iOS", games_count |-> 70],
       [slug |-> "pc", name |-> "PC", games_count |-> 500],
       [slug |-> "ios", name |-> "iOS", games_count |-> 70] >> }

UpperCase == <<"A", "B", "C", "D", "E", "F", "G", "H", "I", "J", "K", "L", "M",
               "N", "O", "P", "Q", "R", "S", "T", "U", "V", "W", "X", "Y", "Z">>
LowerCase == <<"a", "b", "c", "d", "e", "f", "g", "h", "i", "j", "k", "l", "m",
               "n", "o", "p", "q", "r", "s", "t", "u", "v", "w", "x", "y", "z">>

\* String.prototype.toLowerCase
ToLowerCase(str) ==
  [k \in 1..Len(str) |->
     IF \E u \in 1..Len(UpperCase) : UpperCase[u] = str[k]
     THEN LowerCase[CHOOSE u \in 1..Len(UpperCase) : UpperCase[u] = str[k]]
     ELSE str[k]]

\* Faulty variant: every occurrence is replaced (replaceAll, or a /g regex).
ReplaceFirst_All(str, old, new) ==
  [k \in 1..Len(str) |-> IF str[k] = old THEN new ELSE str[k]]

\* String.prototype.replace with a string pattern: the first occurrence only.
ReplaceFirst(str, old, new) ==
  IF \E k \in 1..Len(str) : str[k] = old
  THEN LET first == CHOOSE k \in 1..Len(str) :
                      /\ str[k] = old
                      /\ \A j \in 1..(k - 1) : str[j] # old
       IN [str EXCEPT ![first] = new]
  ELSE str

\* `genreName.toLowerCase().replace(' ', '-')`
GenreId(genreName) == ReplaceFirst(ToLowerCase(genreName), " ", "-")

\* One pass of the inner forEach: genreCounts[genre.name]++ or = 1.  The
\* object is a sequence of (key, count) in insertion order, which is the
\* order Object.keys lists the keys in.
CountGenre(genreCounts, name) ==
  IF \E k \in 1..Len(genreCounts) : genreCounts[k].name = name
  THEN LET k == CHOOSE j \in 1..Len(genreCounts) : genreCounts[j].name = name
       IN [genreCounts EXCEPT ![k].count = @ + 1]
  ELSE Append(genreCounts, [name |-> name, count |-> 1])

\* game.genres.forEach(...)
RECURSIVE CountGenres(_, _)
CountGenres(genreCounts, genres) ==
  IF genres = << >> THEN genreCounts
  ELSE CountGenres(CountGenre(genreCounts, genres[1].name), Tail(genres))

\* games.forEach(...)
RECURSIVE CountGames(_, _)
CountGames(genreCounts, games) ==
  IF games = << >> THEN genreCounts
  ELSE CountGames(CountGenres(genreCounts, games[1].genres), Tail(games))

\* Object.keys(genreCounts).map(...)
FormatGenres(games) ==
  LET genreCounts == CountGames(<< >>, games) IN
  [k \in 1..Len(genreCounts) |->
     [id |-> GenreId(genreCounts[k].name), label |-> genreCounts[k].name,
      value |-> genreCounts[k].count]]

\* Faulty variant: the entries are sorted by games_count, largest first.
FormatPlatforms_Sorted(platforms) ==
  LET Rank(k) ==
        Cardinality({ j \in 1..Len(platforms) :
                        \/ platforms[j].games_count > platforms[k].games_count
                        \/ /\ platforms[j].games_count = platforms[k].games_count
                           /\ j <= k })
      At(n) == CHOOSE k \in 1..Len(platforms) : Rank(k) = n
  IN [n \in 1..Len(platforms) |->
        [id |-> platforms[At(n)].slug, label |-> platforms[At(n)].name,
         value |-> platforms[At(n)].games_count]]

\* platforms.map(...)
FormatPlatforms(platforms) ==
  [k \in 1..Len(platforms) |->
     [id |-> platforms[k].slug, label |-> platforms[k].name,
      value |-> platforms[k].games_count]]

---------------------------------------------------------------------------
(* The client: App (app.jsx) under root.render (index.js).  A value held  *)
(* in App's state is identified by the run of fetchAllData that set it:   *)
(* dataset l is the response body run l received (an array, truthy even   *)
(* when empty), error l the message set by the catch block of run l (a    *)
(* non-empty string); Null is the initial null of useState(null).         *)

Loads == 1..MaxLoads

\* The three requests of fetchAllData, by endpoint.
Endpoints == {"trending", "genre-trends", "platform-performance"}

\* `!value`
Falsy(value) == value = Null

\* setTrendingData(...); setGenreData(...); setPlatformData(...): three
\* updates in one continuation, which createRoot commits as one render.
SetData(state, l) ==
  [state EXCEPT !.trendingData = l, !.genreData = l, !.platformData = l]

\* setError('Network Error: ...')
SetError(state, l) == [state EXCEPT !.error = l]

\* Faulty variant: the data test comes before the error test.
Render_DataBeforeError(state) ==
  IF ~(Falsy(state.trendingData) \/ Falsy(state.genreData)
        \/ Falsy(state.platformData)) THEN "dashboard"
  ELSE IF ~Falsy(state.error) THEN "error"
  ELSE "loading"

\* What App returns for a state: the error view, the loading screen or the
\* dashboard.
Render(state) ==
  IF ~Falsy(state.error) THEN "error"
  ELSE IF Falsy(state.trendingData) \/ Falsy(state.genreData)
          \/ Falsy(state.platformData) THEN "loading"
  ELSE "dashboard"

---------------------------------------------------------------------------
Init ==
  /\ twitchToken = Null
  /\ req = [r \in Requests |->
              [pc |-> "idle", catalog |-> "none", games |-> << >>, result |-> << >>,
               order |-> << >>]]
  /\ lv = [r \in Requests |-> << >>]
  /\ issued = 0
  /\ revoked = {}
  /\ genre = [pc |-> "idle", catalog |-> "none", games |-> << >>,
              result |-> << >>]
  /\ platform = [pc |-> "idle", catalog |-> "none", platforms |-> << >>,
                 result |-> << >>]
  /\ app = [trendingData |-> Null, genreData |-> Null, platformData |-> Null,
            error |-> Null]
  /\ load = [l \in Loads |->
              [pc |-> "idle", res |-> [e \in Endpoints |-> "idle"]]]

\* History: what has happened so far that a later call may depend on.
Happened ==
  (IF revoked # {} THEN {"invalidation"} ELSE {})
  \cup (IF \E r \in Requests : \E i \in DOMAIN lv[r] : lv[r][i].failed = "token"
        THEN {"tokenFailure"} ELSE {})

\* The provider accepts a request carrying `token`.
Accepted(token) == token \in 1..issued /\ token \notin revoked

\* fetchTrendingGames is called: GET /games is sent.
StartTrending(r) ==
  /\ req[r].pc = "idle"
  /\ req' = [req EXCEPT ![r].pc = "awaitCatalog"]
  /\ UNCHANGED <<twitchToken, lv, issued, revoked, genre, platform, app, load>>

\* Faulty variant: the catalog failure is caught and [] returned.
CatalogFail_Absorbed(r) ==
  /\ req[r].pc = "awaitCatalog"
  /\ req' = [req EXCEPT ![r].pc = "returned", ![r].catalog = "failed"]
  /\ UNCHANGED <<twitchToken, lv, issued, revoked, genre, platform, app, load>>

\* GET /games fails: the await throws and nothing catches it.
CatalogFail(r) ==
  /\ req[r].pc = "awaitCatalog"
  /\ req' = [req EXCEPT ![r].pc = "raised", ![r].catalog = "failed"]
  /\ UNCHANGED <<twitchToken, lv, issued, revoked, genre, platform, app, load>>

\* GET /games answers with `games`: games.map starts every fetchLiveViewers
\* call in catalog order, all against the same cache content.
CatalogOk(r, games) ==
  /\ req[r].pc = "awaitCatalog"
  /\ LET calls == [i \in 1..Len(games) |->
                     Launch(games[i].name, twitchToken, Happened)] IN
       /\ lv' = [lv EXCEPT ![r] = calls]
       /\ req' = [req EXCEPT ![r] = Settle(r, games, calls)]
  /\ UNCHANGED <<twitchToken, issued, revoked, genre, platform, app, load>>

\* The turn of call (r, i) ends with the call as `call`.
Resume(r, i, call) ==
  LET calls == [lv[r] EXCEPT ![i] = call] IN
  /\ lv' = [lv EXCEPT ![r] = calls]
  /\ req' = [req EXCEPT ![r] = Settle(r, req[r].games, calls)]

\* POST /oauth2/token answers with a fresh token: it is cached, returned to
\* fetchLiveViewers, and the search request is sent with it.
TokenOk(r, i) ==
  /\ i \in DOMAIN lv[r]
  /\ lv[r][i].pc = "awaitToken"
  /\ issued' = issued + 1
  /\ twitchToken' = StoreToken(twitchToken, issued + 1)
  /\ Resume(r, i, SendSearch(lv[r][i], twitchToken'))
  /\ UNCHANGED <<revoked, genre, platform, app, load>>

\* POST /oauth2/token fails: getTwitchAccessToken throws, fetchLiveViewers
\* catches.
TokenFail(r, i, failure) ==
  /\ i \in DOMAIN lv[r]
  /\ lv[r][i].pc = "awaitToken"
  /\ LET caught == TokenCatch(failure) IN
       IF caught.out = "raise"
       THEN Resume(r, i, Finish(lv[r][i], LiveViewersCatch(caught.error), "token"))
       ELSE Resume(r, i, SendSearch([lv[r][i] EXCEPT !.failed = "token"], caught.ret))
  /\ UNCHANGED <<twitchToken, issued, revoked, genre, platform, app, load>>

\* Faulty variant: the streams request reads the token from the cache again
\* instead of using the call's own `token`.
SearchOk_TokenFromCache(r, i) ==
  /\ i \in DOMAIN lv[r]
  /\ lv[r][i].pc = "awaitSearch"
  /\ Accepted(lv[r][i].auth)
  /\ LET call == lv[r][i]
         data == TwitchGames(call.gameName) IN
       IF Len(data) = 0
       THEN Resume(r, i, EmptySearch(call))
       ELSE Resume(r, i, [call EXCEPT !.pc = "awaitStreams",
                                      !.gameId = FirstMatch(data),
                                      !.auth = twitchToken,
                                      !.sent = call.sent \cup {"streams"}])
  /\ UNCHANGED <<twitchToken, issued, revoked, genre, platform, app, load>>

\* GET /helix/games answers (the provider accepts the token): no match ends
\* the call; otherwise GET /helix/streams is sent for the first match, with
\* 'Authorization': `Bearer ${token}` again.
SearchOk(r, i) ==
  /\ i \in DOMAIN lv[r]
  /\ lv[r][i].pc = "awaitSearch"
  /\ Accepted(lv[r][i].auth)
  /\ LET call == lv[r][i]
         data == TwitchGames(call.gameName) IN
       IF Len(data) = 0
       THEN Resume(r, i, EmptySearch(call))
       ELSE Resume(r, i, [call EXCEPT !.pc = "awaitStreams",
                                      !.gameId = FirstMatch(data),
                                      !.auth = call.token,
                                      !.sent = call.sent \cup {"streams"}])
  /\ UNCHANGED <<twitchToken, issued, revoked, genre, platform, app, load>>

\* GET /helix/games fails (always the case once the token is invalidated).
SearchFail(r, i, failure) ==
  /\ i \in DOMAIN lv[r]
  /\ lv[r][i].pc = "awaitSearch"
  /\ Resume(r, i, Finish(lv[r][i], LiveViewersCatch(failure), "search"))
  /\ UNCHANGED <<twitchToken, issued, revoked, genre, platform, app, load>>

\* GET /helix/streams answers with `data`: the loop adds up the viewer
\* counts and the call returns the total.
StreamsOkWith(r, i, data) ==
  /\ i \in DOMAIN lv[r]
  /\ lv[r][i].pc = "awaitStreams"
  /\ Accepted(lv[r][i].auth)
  /\ LET call == [lv[r][i] EXCEPT !.streams = data]
         totalViewers == SumViewers(data) IN
       Resume(r, i, Finish(call, [out |-> "return", ret |-> totalViewers], "none"))
  /\ UNCHANGED <<twitchToken, issued, revoked, genre, platform, app, load>>

\* GET /helix/streams answers with the provider's streams of the game.
StreamsOk(r, i) ==
  /\ i \in DOMAIN lv[r]
  /\ StreamsOkWith(r, i, TwitchStreams(lv[r][i].gameId))

\* GET /helix/streams fails.
StreamsFail(r, i, failure) ==
  /\ i \in DOMAIN lv[r]
  /\ lv[r][i].pc = "awaitStreams"
  /\ Resume(r, i, Finish(lv[r][i], LiveViewersCatch(failure), "streams"))
  /\ UNCHANGED <<twitchToken, issued, revoked, genre, platform, app, load>>

\* The request call (r, i) has in flight is never answered.  No axios call
\* passes a timeout and nothing cancels a request, so the await never
\* resumes.
Stall(r, i) ==
  /\ i \in DOMAIN lv[r]
  /\ lv[r][i].pc \in {"awaitToken", "awaitSearch", "awaitStreams"}
  /\ lv' = [lv EXCEPT ![r][i].pc = "stalled"]
  /\ UNCHANGED <<twitchToken, req, issued, revoked, genre, platform, app, load>>

\* The provider invalidates the token the cache holds.
Revoke ==
  /\ twitchToken # Null
  /\ twitchToken \notin revoked
  /\ revoked' = revoked \cup {twitchToken}
  /\ UNCHANGED <<twitchToken, req, lv, issued, genre, platform, app, load>>

\* fetchGenreTrends is called: GET /games (page_size 50) is sent.
StartGenre ==
  /\ genre.pc = "idle"
  /\ genre' = [genre EXCEPT !.pc = "awaitCatalog"]
  /\ UNCHANGED <<twitchToken, req, lv, issued, revoked, platform, app, load>>

\* GET /games fails: nothing catches it.
GenreFail ==
  /\ genre.pc = "awaitCatalog"
  /\ genre' = [genre EXCEPT !.pc = "raised", !.catalog = "failed"]
  /\ UNCHANGED <<twitchToken, req, lv, issued, revoked, platform, app, load>>

\* Faulty variant: fetchGenreTrends also resets the module's token cache.
GenreOk_ResetsToken(games) ==
  /\ genre.pc = "awaitCatalog"
  /\ genre' = [pc |-> "returned", catalog |-> "ok", games |-> games,
               result |-> FormatGenres(games)]
  /\ twitchToken' = Null
  /\ UNCHANGED <<req, lv, issued, revoked, platform, app, load>>

\* GET /games answers with `games`: the genres are tallied and returned.
GenreOk(games) ==
  /\ genre.pc = "awaitCatalog"
  /\ genre' = [pc |-> "returned", catalog |-> "ok", games |-> games,
               result |-> FormatGenres(games)]
  /\ UNCHANGED <<twitchToken, req, lv, issued, revoked, platform, app, load>>

\* fetchPlatformPerformance is called: GET /platforms is sent.
StartPlatform ==
  /\ platform.pc = "idle"
  /\ platform' = [platform EXCEPT !.pc = "awaitCatalog"]
  /\ UNCHANGED <<twitchToken, req, lv, issued, revoked, genre, app, load>>

\* GET /platforms fails: nothing catches it.
PlatformFail ==
  /\ platform.pc = "awaitCatalog"
  /\ platform' = [platform EXCEPT !.pc = "raised", !.catalog = "failed"]
  /\ UNCHANGED <<twitchToken, req, lv, issued, revoked, genre, app, load>>

\* GET /platforms answers with `platforms`: they are mapped and returned.
PlatformOk(platforms) ==
  /\ platform.pc = "awaitCatalog"
  /\ platform' = [pc |-> "returned", catalog |-> "ok", platforms |-> platforms,
                  result |-> FormatPlatforms(platforms)]
  /\ UNCHANGED <<twitchToken, req, lv, issued, revoked, genre, app, load>>

---------------------------------------------------------------------------
(* Spec: the token cache under overlapping fetchTrendingGames requests.    *)
(* Every request to the streaming provider may fail at any time, whatever  *)
(* the reason (an invalidated token included).                             *)

Next ==
  \/ \E r \in Requests : StartTrending(r)
  \/ \E r \in Requests : CatalogFail(r)
  \/ \E r \in Requests, games \in TrendingCatalogs : CatalogOk(r, games)
  \/ \E r \in Requests : \E i \in DOMAIN lv[r] : TokenOk(r, i)
  \/ \E r \in Requests : \E i \in DOMAIN lv[r], f \in Failures : TokenFail(r, i, f)
  \/ \E r \in Requests : \E i \in DOMAIN lv[r] : SearchOk(r, i)
  \/ \E r \in Requests : \E i \in DOMAIN lv[r], f \in Failures : SearchFail(r, i, f)
  \/ \E r \in Requests : \E i \in DOMAIN lv[r] : StreamsOk(r, i)
  \/ \E r \in Requests : \E i \in DOMAIN lv[r], f \in Failures : StreamsFail(r, i, f)

Spec == Init /\ [][Next]_vars

---------------------------------------------------------------------------
(* SpecExpiry: Spec with a provider that invalidates cached tokens, after  *)
(* which it answers no request carrying them.                              *)

NextExpiry ==
  \/ Next
  \/ Revoke

SpecExpiry == Init /\ [][NextExpiry]_vars

---------------------------------------------------------------------------
(* SpecSeq: sequential fetchLiveViewers calls.  fetchLiveViewers is not    *)
(* exported, so a call is made by a fetchTrendingGames request whose       *)
(* catalog holds one item; a request starts only after the others          *)
(* returned.                                                               *)

SeqCatalogs == { <<GameA>>, <<GameB>>, <<GameC>> }

NoneRunning == \A q \in Requests : req[q].pc \in {"idle", "returned", "raised"}

NextSeq ==
  \/ \E r \in Requests : NoneRunning /\ StartTrending(r)
  \/ \E r \in Requests : CatalogFail(r)
  \/ \E r \in Requests, games \in SeqCatalogs : CatalogOk(r, games)
  \/ \E r \in Requests : \E i \in DOMAIN lv[r] : TokenOk(r, i)
  \/ \E r \in Requests : \E i \in DOMAIN lv[r], f \in Failures : TokenFail(r, i, f)
  \/ \E r \in Requests : \E i \in DOMAIN lv[r] : SearchOk(r, i)
  \/ \E r \in Requests : \E i \in DOMAIN lv[r], f \in Failures : SearchFail(r, i, f)
  \/ \E r \in Requests : \E i \in DOMAIN lv[r] : StreamsOk(r, i)
  \/ \E r \in Requests : \E i \in DOMAIN lv[r], f \in Failures : StreamsFail(r, i, f)
  \/ Revoke

SpecSeq == Init /\ [][NextSeq]_vars

---------------------------------------------------------------------------
(* SpecOps: the three read operations side by side, one invocation each. *)

OpsCatalogs == TrendingCatalogs \cup { <<GameA, GameB, GameC>> }

NextOps ==
  \/ StartTrending(1)
  \/ CatalogFail(1)
  \/ \E games \in OpsCatalogs : CatalogOk(1, games)
  \/ \E i \in DOMAIN lv[1] : TokenOk(1, i)
  \/ \E i \in DOMAIN lv[1], f \in Failures : TokenFail(1, i, f)
  \/ \E i \in DOMAIN lv[1] : SearchOk(1, i)
  \/ \E i \in DOMAIN lv[1], f \in Failures : SearchFail(1, i, f)
  \/ \E i \in DOMAIN lv[1] : StreamsOk(1, i)
  \/ \E i \in DOMAIN lv[1], f \in Failures : StreamsFail(1, i, f)
  \/ StartGenre
  \/ GenreFail
  \/ \E games \in GenreCatalogs : GenreOk(games)
  \/ StartPlatform
  \/ PlatformFail
  \/ \E platforms \in PlatformCatalogs : PlatformOk(platforms)

SpecOps == Init /\ [][NextOps]_vars

---------------------------------------------------------------------------
(* SpecSum: one fetchTrendingGames invocation whose streams responses     *)
(* range over every list of at most MaxStreams streams.                   *)

ViewerCounts == {0, 7, 80, 120, 300}

RECURSIVE StreamLists(_)
StreamLists(n) ==
  IF n = 0 THEN { << >> }
  ELSE StreamLists(n - 1)
       \cup { Append(data, [viewer_count |-> c]) :
                data \in { d \in StreamLists(n - 1) : Len(d) = n - 1 },
                c \in ViewerCounts }

SumCatalogs == { <<GameA>>, <<GameB>>, <<GameC>>, <<GameE, GameC>> }

NextSum ==
  \/ StartTrending(1)
  \/ CatalogFail(1)
  \/ \E games \in SumCatalogs : CatalogOk(1, games)
  \/ \E i \in DOMAIN lv[1] : TokenOk(1, i)
  \/ \E i \in DOMAIN lv[1], f \in Failures : TokenFail(1, i, f)
  \/ \E i \in DOMAIN lv[1] : SearchOk(1, i)
  \/ \E i \in DOMAIN lv[1], f \in Failures : SearchFail(1, i, f)
  \/ \E i \in DOMAIN lv[1], data \in StreamLists(MaxStreams) :
       StreamsOkWith(1, i, data)
  \/ \E i \in DOMAIN lv[1], f \in Failures : StreamsFail(1, i, f)

SpecSum == Init /\ [][NextSum]_vars

---------------------------------------------------------------------------
(* SpecApp: the client.  App is mounted once; its mount effect runs       *)
(* fetchAllData n times within the mount (n = 1, or 2 under StrictMode in *)
(* development), each run sending its three requests at once.             *)

Mount(n) ==
  /\ \A l \in Loads : load[l].pc = "idle"
  /\ load' = [l \in Loads |->
               IF l <= n
               THEN [pc |-> "awaitAll", res |-> [e \in Endpoints |-> "pending"]]
               ELSE load[l]]
  /\ UNCHANGED <<app>>
  /\ UNCHANGED serverVars

\* Request e of run l is answered.  Promise.all fulfils when the last of the
\* three has been answered: the continuation stores the three bodies.
EndpointOk(l, e) ==
  /\ load[l].res[e] = "pending"
  /\ LET res == [load[l].res EXCEPT ![e] = "ok"] IN
       IF load[l].pc = "awaitAll" /\ \A d \in Endpoints : res[d] = "ok"
       THEN /\ load' = [load EXCEPT ![l] = [pc |-> "fulfilled", res |-> res]]
            /\ app' = SetData(app, l)
       ELSE /\ load' = [load EXCEPT ![l].res = res]
            /\ UNCHANGED <<app>>
  /\ UNCHANGED serverVars

\* Request e of run l fails.  The first failure rejects Promise.all and the
\* catch block sets the error; later answers of the run are dropped.
EndpointFail(l, e) ==
  /\ load[l].res[e] = "pending"
  /\ LET res == [load[l].res EXCEPT ![e] = "failed"] IN
       IF load[l].pc = "awaitAll"
       THEN /\ load' = [load EXCEPT ![l] = [pc |-> "rejected", res |-> res]]
            /\ app' = SetError(app, l)
       ELSE /\ load' = [load EXCEPT ![l].res = res]
            /\ UNCHANGED <<app>>
  /\ UNCHANGED serverVars

NextApp ==
  \/ \E n \in Loads : Mount(n)
  \/ \E l \in Loads, e \in Endpoints : EndpointOk(l, e)
  \/ \E l \in Loads, e \in Endpoints : EndpointFail(l, e)

SpecApp == Init /\ [][NextApp]_vars

---------------------------------------------------------------------------
(* SpecFair: one fetchTrendingGames invocation in which every request in  *)
(* flight is eventually answered, with a response or with a failure,      *)
(* unless it is one that stalls.  The event loop runs the continuation of *)
(* every answered request, which is what the fairness conditions say.     *)

\* The request call (r, i) has in flight is answered.
Respond(r, i) ==
  \/ TokenOk(r, i)
  \/ \E f \in Failures : TokenFail(r, i, f)
  \/ SearchOk(r, i)
  \/ \E f \in Failures : SearchFail(r, i, f)
  \/ StreamsOk(r, i)
  \/ \E f \in Failures : StreamsFail(r, i, f)

\* GET /games of request r is answered.
RespondCatalog(r) ==
  \/ CatalogFail(r)
  \/ \E games \in OpsCatalogs : CatalogOk(r, games)

NextFair ==
  \/ StartTrending(1)
  \/ CatalogFail(1)
  \/ \E games \in OpsCatalogs : CatalogOk(1, games)
  \/ \E i \in DOMAIN lv[1] : TokenOk(1, i)
  \/ \E i \in DOMAIN lv[1], f \in Failures : TokenFail(1, i, f)
  \/ \E i \in DOMAIN lv[1] : SearchOk(1, i)
  \/ \E i \in DOMAIN lv[1], f \in Failures : SearchFail(1, i, f)
  \/ \E i \in DOMAIN lv[1] : StreamsOk(1, i)
  \/ \E i \in DOMAIN lv[1], f \in Failures : StreamsFail(1, i, f)
  \/ \E i \in DOMAIN lv[1] : Stall(1, i)

SpecFair ==
  /\ Init
  /\ [][NextFair]_vars
  /\ WF_vars(RespondCatalog(1))
  /\ WF_vars(\E i \in DOMAIN lv[1] : Respond(1, i))

---------------------------------------------------------------------------
(* Properties *)

\* The fetchLiveViewers calls made so far, as (request, item) pairs.
CallIds == UNION { {<<r, i>> : i \in DOMAIN lv[r]} : r \in Requests }

Call(id) == lv[id[1]][id[2]]

\* What fetchLiveViewers answers for a name when no provider call fails
\* (from the provider data above: A -> first match 101, C -> 103).
ViewersIfNoFailure(gameName) ==
  CASE gameName = "A" -> 500
    [] gameName = "C" -> 42
    [] OTHER -> 0

\* C1: fetchLiveViewers never raises and every completed call returned an
\* integer >= 0, which is 0 whenever the token exchange, the entity search
\* or the sessions query of that call failed.
C1_NeverRaisesNonNegative ==
  \A id \in CallIds :
    /\ Call(id).out # "raise"
    /\ Call(id).pc = "done" =>
         /\ Call(id).out = "return"
         /\ Call(id).ret \in Nat
         /\ Call(id).failed # "none" => Call(id).ret = 0

\* C1 witness: calls have completed after a failure of each of the three
\* steps, and another one with every step succeeding.
C1_Witness ==
  /\ \A step \in {"token", "search", "streams"} :
       \E id \in CallIds : Call(id).pc = "done" /\ Call(id).failed = step
  /\ \E id \in CallIds : Call(id).pc = "done" /\ Call(id).ret = 500

\* C2: once a credential is stored in the cache it is never replaced.
C2_TokenNeverReplaced ==
  [][twitchToken # Null => twitchToken' = twitchToken]_vars

\* Number of token exchanges invoked / failed so far.
TokenExchanges == Cardinality({id \in CallIds : "token" \in Call(id).sent})
FailedExchanges == Cardinality({id \in CallIds : Call(id).failed = "token"})

\* C3 (as stated): across sequential fetchLiveViewers calls the token
\* exchange is invoked at most once, whatever the provider calls' outcomes.
C3_AtMostOneExchange == TokenExchanges <= 1

\* C3 (amended): across sequential fetchLiveViewers calls at most one token
\* exchange that does not fail is invoked: at most one token is ever issued,
\* and every exchange but possibly one is a failed one.
C3_AtMostOneExchangeNotFailed ==
  /\ issued <= 1
  /\ TokenExchanges <= FailedExchanges + 1

\* C3 witness: a call made after a successful exchange has completed through
\* the cache, sending no exchange of its own.
C3_Witness ==
  /\ issued = 1
  /\ \E id \in CallIds :
       /\ Call(id).pc = "done"
       /\ Call(id).sent = {"search", "streams"}
       /\ Call(id).ret = 500

\* C4: there are never two token exchanges in flight at the same time.
C4_NoConcurrentTokenFetches ==
  Cardinality({id \in CallIds : Call(id).pc = "awaitToken"}) <= 1

\* C5: fetchTrendingGames returns one record per catalog item, in catalog
\* order: record i carries the id, name and image of item i and the value
\* the call launched for item i returned.
C5_CatalogOrderPreserved ==
  \A r \in Requests :
    req[r].pc = "returned" /\ req[r].catalog = "ok" =>
      /\ Len(req[r].result) = Len(req[r].games)
      /\ \A i \in 1..Len(req[r].games) :
           /\ req[r].result[i].id = req[r].games[i].id
           /\ req[r].result[i].name = req[r].games[i].name
           /\ req[r].result[i].image = req[r].games[i].background_image
           /\ req[r].result[i].liveViewers = lv[r][i].ret
           /\ lv[r][i].gameName = req[r].games[i].name

\* C5 witness: the request has returned for the catalog [A, B, C] with the
\* calls completed in the order C, A, B, each item with its own value.
C5_Witness ==
  \E r \in Requests :
    /\ req[r].pc = "returned"
    /\ req[r].games = <<GameA, GameB, GameC>>
    /\ req[r].order = <<3, 1, 2>>
    /\ req[r].result[1].liveViewers = 500
    /\ req[r].result[2].liveViewers = 0
    /\ req[r].result[3].liveViewers = 42

\* C6: when the catalog fetch succeeded, fetchTrendingGames does not raise
\* whatever fails inside the per-item calls; a failed item's record has
\* liveViewers = 0 and every other record has the value it has when nothing
\* fails.
C6_PartialFailureIsolated ==
  \A r \in Requests :
    req[r].catalog = "ok" =>
      /\ req[r].pc # "raised"
      /\ (\A i \in DOMAIN lv[r] : lv[r][i].pc = "done") => req[r].pc = "returned"
      /\ req[r].pc = "returned" =>
           \A i \in 1..Len(req[r].games) :
             req[r].result[i].liveViewers =
               IF lv[r][i].failed # "none" THEN 0
               ELSE ViewersIfNoFailure(req[r].games[i].name)

\* C6 witness: a request has returned with one item failed (0) and the
\* other item at its value.
C6_Witness ==
  \E r \in Requests :
    /\ req[r].pc = "returned"
    /\ Len(req[r].games) = 2
    /\ lv[r][1].failed = "streams" /\ req[r].result[1].liveViewers = 0
    /\ lv[r][2].failed = "none" /\ req[r].result[2].liveViewers = 500

\* The turn in which the token exchange of call (r, i) fails.
TokenFailsNow(r, i) ==
  lv[r][i].pc = "awaitToken" /\ lv'[r][i].failed = "token"

\* C7: a failed token exchange leaves the cache as it is and makes
\* fetchLiveViewers return 0 having sent neither the search nor the
\* sessions request; fetchTrendingGames is not aborted; and a call started
\* on an empty cache with a name always sends the exchange (again).
C7_TokenFailure ==
  [][ /\ \A r \in Requests : \A i \in DOMAIN lv[r] :
           TokenFailsNow(r, i) =>
             /\ twitchToken' = twitchToken
             /\ lv'[r][i].pc = "done"
             /\ lv'[r][i].out = "return"
             /\ lv'[r][i].ret = 0
             /\ lv'[r][i].sent = {"token"}
             /\ req'[r].pc \in {"awaitAll", "returned"}
      /\ \A r \in Requests :
           lv[r] = << >> /\ twitchToken = Null =>
             \A i \in DOMAIN lv'[r] :
               lv'[r][i].gameName \notin {"", Absent} =>
                 lv'[r][i].pc = "awaitToken" /\ lv'[r][i].sent = {"token"}
    ]_vars

\* C7 witness: a request has returned with an item whose token exchange
\* failed, and a call started after that failure, the cache still empty, has
\* its own exchange in flight.
C7_Witness ==
  /\ twitchToken = Null
  /\ \E r \in Requests :
       /\ req[r].pc = "returned"
       /\ \E i \in DOMAIN lv[r] :
            lv[r][i].failed = "token" /\ req[r].result[i].liveViewers = 0
  /\ \E id \in CallIds :
       Call(id).pc = "awaitToken" /\ "tokenFailure" \in Call(id).after

\* C8: a failed catalog fetch makes the operation raise: it returns no
\* array and (fetchTrendingGames) starts no fetchLiveViewers call and no
\* token exchange; and an operation raises only for that reason.
C8_CatalogFailurePropagates ==
  /\ req[1].catalog = "failed" =>
       /\ req[1].pc = "raised" /\ req[1].result = << >>
       /\ lv[1] = << >> /\ twitchToken = Null /\ issued = 0
  /\ genre.catalog = "failed" => genre.pc = "raised" /\ genre.result = << >>
  /\ platform.catalog = "failed" =>
       platform.pc = "raised" /\ platform.result = << >>
  /\ req[1].pc = "raised" => req[1].catalog = "failed"
  /\ genre.pc = "raised" => genre.catalog = "failed"
  /\ platform.pc = "raised" => platform.catalog = "failed"

\* C8 witness: the catalog fetch of each of the three operations has failed.
C8_Witness ==
  /\ req[1].catalog = "failed"
  /\ genre.catalog = "failed"
  /\ platform.catalog = "failed"

\* C9: for an empty or absent name fetchLiveViewers returns 0 in the turn it
\* is called in, sends no request and leaves the token cache as it is.
C9_NoNameNoNetwork ==
  [][ \A r \in Requests : \A i \in DOMAIN lv'[r] :
        lv'[r][i].gameName \in {"", Absent} =>
          /\ lv'[r][i].pc = "done"
          /\ lv'[r][i].out = "return"
          /\ lv'[r][i].ret = 0
          /\ lv'[r][i].sent = {}
          /\ lv[r] = << >> => twitchToken' = twitchToken
    ]_vars

\* C9 witness: calls with the empty name and with no name have completed.
C9_Witness ==
  /\ \E id \in CallIds : Call(id).gameName = "" /\ Call(id).pc = "done"
  /\ \E id \in CallIds : Call(id).gameName = Absent /\ Call(id).pc = "done"

\* C10: once the provider has invalidated the cached token, every call
\* started afterwards returns 0 and sends no token exchange.
C10_StaysInvalidated ==
  \A id \in CallIds :
    "invalidation" \in Call(id).after =>
      /\ "token" \notin Call(id).sent
      /\ Call(id).pc = "done" => Call(id).ret = 0

\* C11: when getTwitchAccessToken is called with a credential in the cache
\* (at the start of a fetchLiveViewers call with a name), it returns that
\* credential, sends no token exchange and leaves the cache as it is: the
\* call goes on to the search with the cached token.
C11_CacheHitNoNetwork ==
  [][ \A r \in Requests :
        lv[r] = << >> /\ twitchToken # Null =>
          \A i \in DOMAIN lv'[r] :
            lv'[r][i].gameName \notin {"", Absent} =>
              /\ twitchToken' = twitchToken
              /\ issued' = issued
              /\ lv'[r][i].token = twitchToken
              /\ lv'[r][i].sent = {"search"}
              /\ lv'[r][i].pc = "awaitSearch"
    ]_vars

\* C11 witness: a call started on a filled cache is waiting for its search
\* answer, holding the cached token, having sent no exchange.
C11_Witness ==
  \E id \in CallIds :
    /\ Call(id).pc = "awaitSearch"
    /\ Call(id).sent = {"search"}
    /\ Call(id).token = twitchToken
    /\ twitchToken # Null

\* The total of a list of viewer counts, added up from the last stream back.
RECURSIVE TotalFromEnd(_, _)
TotalFromEnd(data, n) ==
  IF n = 0 THEN 0 ELSE data[n].viewer_count + TotalFromEnd(data, n - 1)

\* C12: a fetchLiveViewers call whose token, search and streams steps all
\* succeeded returns the sum of viewer_count over the streams it received:
\* 0 for an empty list, 500 for [120, 80, 300], the exact total in general.
C12_SumOfViewerCounts ==
  \A id \in CallIds :
    LET call == Call(id) IN
    call.pc = "done" /\ call.failed = "none" /\ "streams" \in call.sent =>
      /\ call.out = "return"
      /\ call.ret = TotalFromEnd(call.streams, Len(call.streams))
      /\ call.ret >= 0
      /\ call.streams = << >> => call.ret = 0
      /\ call.streams = << [viewer_count |-> 120], [viewer_count |-> 80],
                           [viewer_count |-> 300] >> => call.ret = 500

\* C12 witness: a call whose three steps succeeded received the streams
\* [120, 80, 300] and returned 500.
C12_Witness ==
  \E id \in CallIds :
    /\ Call(id).pc = "done"
    /\ Call(id).failed = "none"
    /\ Call(id).streams = << [viewer_count |-> 120], [viewer_count |-> 80],
                             [viewer_count |-> 300] >>
    /\ Call(id).ret = 500

\* C13: a fetchLiveViewers call whose entity search answers with zero
\* matches never sends the streams request, and it returns 0.
C13_NoMatchNoStreams ==
  \A id \in CallIds :
    LET call == Call(id) IN
    /\ ~NoName(call.gameName)
    /\ TwitchGames(call.gameName) = << >>
    => /\ "streams" \notin call.sent
       /\ call.pc # "awaitStreams"
       /\ call.pc = "done" => call.out = "return" /\ call.ret = 0

\* C13 witness: a call received a search answer with zero matches (token
\* and search succeeded) and has returned.
C13_Witness ==
  \E id \in CallIds :
    /\ TwitchGames(Call(id).gameName) = << >>
    /\ Call(id).sent = {"token", "search"}
    /\ Call(id).pc = "done"
    /\ Call(id).failed = "none"
    /\ Call(id).ret = 0

\* The positions (item, index) of the genre entries of a catalog batch.
GenreEntries(games) ==
  UNION { { <<g, k>> : k \in 1..Len(games[g].genres) } : g \in 1..Len(games) }

\* How often `label` occurs in the genre lists of a catalog batch.
Occurrences(games, label) ==
  Cardinality({ e \in GenreEntries(games) :
                  games[e[1]].genres[e[2]].name = label })

\* The id the statement gives for each label: lowercased, the first space
\* only turned into a hyphen.
ExpectedGenreId(label) ==
  CASE label = Action -> <<"a", "c", "t", "i", "o", "n">>
    [] label = RPG -> <<"r", "p", "g">>
    [] label = BoardGames ->
         <<"b", "o", "a", "r", "d", "-", "g", "a", "m", "e", "s">>
    [] label = OpenWorldRPG ->
         <<"o", "p", "e", "n", "-", "w", "o", "r", "l", "d", " ", "r", "p", "g">>

RECURSIVE SumOfValues(_, _)
SumOfValues(result, n) ==
  IF n = 0 THEN 0 ELSE result[n].value + SumOfValues(result, n - 1)

C15_PlatformOrderKept ==
  platform.pc = "returned" =>
    /\ Len(platform.result) = Len(platform.platforms)
    /\ \A k \in 1..Len(platform.platforms) :
         /\ platform.result[k].id = platform.platforms[k].slug
         /\ platform.result[k].label = platform.platforms[k].name
         /\ platform.result[k].value = platform.platforms[k].games_count

\* C15 witness: fetchPlatformPerformance returned for a response that is
\* not sorted by games_count and names one platform twice.
C15_Witness ==
  /\ platform.pc = "returned"
  /\ Len(platform.result) = 3
  /\ platform.result[1].value < platform.result[2].value
  /\ platform.result[1] = platform.result[3]

\* C16: the three read operations share no mutable state.  A step of
\* fetchGenreTrends or of fetchPlatformPerformance changes nothing but its
\* own invocation: not the token cache, not the streaming provider, not a
\* fetchTrendingGames request and not the other operation; a step of
\* fetchTrendingGames leaves the two of them alone; and what the two return
\* is determined by their own catalog response, whatever the cache holds.
C16_NoSharedState ==
  [][ /\ genre' # genre =>
           UNCHANGED <<twitchToken, req, lv, issued, revoked, platform>>
      /\ platform' # platform =>
           UNCHANGED <<twitchToken, req, lv, issued, revoked, genre>>
      /\ <<twitchToken, req, lv, issued, revoked>>' #
           <<twitchToken, req, lv, issued, revoked>> =>
           UNCHANGED <<genre, platform>>
      /\ genre'.pc = "returned" =>
           \A k \in 1..Len(genre'.result) :
             genre'.result[k].value = Occurrences(genre'.games, genre'.result[k].label)
      /\ platform'.pc = "returned" =>
           /\ Len(platform'.result) = Len(platform'.platforms)
           /\ \A k \in 1..Len(platform'.result) :
                platform'.result[k].id = platform'.platforms[k].slug
    ]_vars

\* C16 witness: fetchGenreTrends and fetchPlatformPerformance have both
\* returned while a fetchTrendingGames request is waiting for its calls and
\* the token cache is filled.
C16_Witness ==
  /\ genre.pc = "returned" /\ genre.result # << >>
  /\ platform.pc = "returned" /\ platform.result # << >>
  /\ req[1].pc = "awaitAll"
  /\ twitchToken # Null

\* The id of the first search match of each name (provider data).
FirstMatchId(gameName) ==
  CASE gameName = "A" -> 101
    [] gameName = "C" -> 103
    [] OTHER -> 0

\* C17: within one fetchLiveViewers call the provider requests are strictly
\* ordered.  The search is sent only with the token getTwitchAccessToken
\* has just returned to this call (the cached one on a hit, the freshly
\* issued one after the call's own exchange); the streams request is sent
\* only on receipt of the search answer, for the id of the first match, and
\* with the very token the search carried, whatever the cache holds by then.
C17_OrderedSameToken ==
  [][ \A r \in Requests : \A i \in DOMAIN lv'[r] :
        LET new == lv'[r][i]
            launched == i \notin DOMAIN lv[r]
            sentBefore == IF launched THEN {} ELSE lv[r][i].sent
        IN /\ "search" \in new.sent \ sentBefore =>
                /\ new.pc = "awaitSearch"
                /\ new.token # Null
                /\ new.auth = new.token
                /\ launched => new.token = twitchToken
                /\ ~launched =>
                     /\ lv[r][i].pc = "awaitToken"
                     /\ issued' = issued + 1
                     /\ new.token = issued'
           /\ "streams" \in new.sent \ sentBefore =>
                /\ ~launched
                /\ lv[r][i].pc = "awaitSearch"
                /\ "search" \in sentBefore
                /\ new.pc = "awaitStreams"
                /\ new.token = lv[r][i].token
                /\ new.auth = lv[r][i].auth
                /\ new.gameId = FirstMatchId(new.gameName)
           /\ new.pc \in {"awaitSearch", "awaitStreams"} => new.auth = new.token
    ]_vars

\* C17 witness: a call has its streams request in flight, carrying the
\* token of its own exchange, while the cache already holds the token of
\* another call's exchange.
C17_Witness ==
  \E id \in CallIds :
    /\ Call(id).pc = "awaitStreams"
    /\ Call(id).sent = {"token", "search", "streams"}
    /\ Call(id).gameId = FirstMatchId(Call(id).gameName)
    /\ Call(id).auth = Call(id).token
    /\ twitchToken # Null
    /\ twitchToken # Call(id).token

\* fetchTrendingGames has been called and has neither returned nor raised.
Running(r) == req[r].pc \in {"awaitCatalog", "awaitAll"}

Stalled(r) == \E i \in DOMAIN lv[r] : lv[r][i].pc = "stalled"

\* C18: fetchTrendingGames returns only when every fetchLiveViewers call it
\* launched has completed; when every request in flight is answered or
\* fails, a running fetchTrendingGames eventually returns or raises; and
\* once a single request of a single call stalls, fetchTrendingGames never
\* returns (nor raises): nothing times out and nothing is cancelled.
C18_ReturnsAfterAllCalls ==
  /\ [](req[1].pc = "returned" =>
          \A i \in DOMAIN lv[1] : lv[1][i].pc = "done")
  /\ Running(1) ~> (req[1].pc \in {"returned", "raised"} \/ Stalled(1))
  /\ [](Stalled(1) => [](Running(1)))

\* C18 witness: fetchTrendingGames returned three records after its three
\* calls had all completed, the last item's call first.
C18_Witness ==
  /\ req[1].pc = "returned"
  /\ Len(req[1].result) = 3
  /\ req[1].order[1] = 3
  /\ \A i \in DOMAIN lv[1] : lv[1][i].pc = "done"

\* C18, the stalled case: a call of a running fetchTrendingGames is stalled
\* while the other calls have completed.
C18_StalledReached ==
  /\ Running(1)
  /\ Len(lv[1]) = 3
  /\ lv[1][2].pc = "stalled"
  /\ lv[1][1].pc = "done" /\ lv[1][3].pc = "done"

\* The datasets App holds.
Datasets == {app.trendingData, app.genreData, app.platformData}

\* C19: App's load state machine.  The datasets are stored only by a run of
\* fetchAllData whose three requests all succeeded, all three at once, so
\* they are all unset or all set (by the same run); a run with a failed
\* request sets the error and stores none of its bodies; the dashboard is
\* rendered exactly when the three datasets are present and no error is
\* recorded; and once an error is recorded, the error view is what App
\* renders from then on.
C19_LoadStateMachine ==
  /\ [](/\ Cardinality(Datasets) = 1
        /\ \A l \in Loads :
             /\ l \in Datasets =>
                  /\ load[l].pc = "fulfilled"
                  /\ \A e \in Endpoints : load[l].res[e] = "ok"
             /\ (\E e \in Endpoints : load[l].res[e] = "failed") =>
                  /\ load[l].pc = "rejected"
                  /\ app.error # Null
                  /\ l \notin Datasets
        /\ Render(app) = "dashboard" <=> (Null \notin Datasets /\ app.error = Null)
        /\ Render(app) = "error" <=> app.error # Null)
  /\ [][app.error # Null => app'.error # Null /\ Render(app') = "error"]_vars

\* C19 witness: one run of fetchAllData has stored its three datasets,
\* another run has failed, and App renders the error view.
C19_Witness ==
  /\ Null \notin Datasets
  /\ \E l \in Loads : load[l].pc = "rejected"
  /\ app.error # Null
  /\ Render(app) = "error"

===========================================================================
